---- MODULE Spec2Model ----
(***************************************************************************)
(* Structural mechanics engine of engineering-copilot                      *)
(* (src/copilot/structural.py): Material, BeamAnalysisResult,              *)
(* BeamAnalyzer and ColumnAnalyzer.                                        *)
(*                                                                         *)
(* Numbers.  The code computes in Python floats.  The model computes the   *)
(* same expressions exactly: a number is n/d * 10^e * pi^p, kept in a      *)
(* canonical form so that equal values are equal records, and a square     *)
(* root is kept as its radicand.  Rounding of the floating-point           *)
(* operations is therefore not part of the model; the unit conversions     *)
(* (1e9, 1e6, 1000), math.pi and math.sqrt are.  A division by zero raises *)
(* ZeroDivisionError in Python; here it yields the value Raised, which     *)
(* every later operation passes on, so that a call's outcome is Raised     *)
(* exactly when one of the divisions it evaluates has a zero divisor.      *)
(***************************************************************************)
EXTENDS Integers, Sequences, FiniteSets, TLC

VARIABLES
    materials,        \* the Material objects: id -> the five fields
    beam_analyzer,    \* BeamAnalyzer instance: [material |-> id]
    column_analyzer,  \* ColumnAnalyzer instance: [material |-> id]
    pc,               \* the sequential caller: "idle" or "returned"
    call,             \* the call the caller made last (operation, arguments)
    result,           \* what that call returned or raised
    safe,             \* the answer of is_safe on the result, if asked
    report,           \* the answer of summary on the result, if asked
    threads,          \* concurrent callers: each one's call in progress
    db                \* MaterialSelector.db.materials: the catalog list

vars == <<materials, beam_analyzer, column_analyzer, pc, call, result, safe, report, threads, db>>

\* What the sequential caller holds, and what the objects hold.
caller == <<pc, call, result, safe, report>>
objects == <<materials, beam_analyzer, column_analyzer, db>>

----------------------------------------------------------------------------
(* Exact arithmetic                                                        *)
(*                                                                         *)
(* A number is [s, f, p]: sign s, prime factorisation f (prime -> nonzero  *)
(* exponent, negative for the denominator) and power p of pi.  Products    *)
(* and quotients add and subtract exponents; sums and comparisons take out *)
(* the common factor first, so no intermediate value leaves TLC's integer  *)
(* range.  Equal values are equal records.                                 *)

RECURSIVE SmallestDivisor(_, _)
SmallestDivisor(n, q) ==
    IF q * q > n THEN n
    ELSE IF n % q = 0 THEN q
    ELSE SmallestDivisor(n, q + 1)

RECURSIVE Multiplicity(_, _)
Multiplicity(n, q) == IF n % q = 0 THEN 1 + Multiplicity(n \div q, q) ELSE 0

RECURSIVE IntPow(_, _)
IntPow(q, k) == IF k <= 0 THEN 1 ELSE q * IntPow(q, k - 1)

RECURSIVE PrimesOf(_)
PrimesOf(n) ==
    IF n = 1 THEN {}
    ELSE LET q == SmallestDivisor(n, 2)
         IN  {q} \cup PrimesOf(n \div IntPow(q, Multiplicity(n, q)))

\* The factorisation of an integer n >= 1.
Factor(n) == [q \in PrimesOf(n) |-> Multiplicity(n, q)]

Exponent(f, q) == IF q \in DOMAIN f THEN f[q] ELSE 0

\* The factorisation with the exponents g, zero exponents dropped.
Factors(g) == [q \in {r \in DOMAIN g : g[r] # 0} |-> g[q]]

\* The integer with factorisation f restricted to its positive exponents.
RECURSIVE Product(_, _)
Product(f, D) ==
    IF D = {} THEN 1
    ELSE LET q == CHOOSE r \in D : TRUE
         IN  IntPow(q, f[q]) * Product(f, D \ {q})

\* The outcome of an expression whose evaluation raised ZeroDivisionError.
Raised == [fault |-> "ZeroDivisionError"]

IsRaised(x) == "fault" \in DOMAIN x

Zero == [s |-> 0, f |-> Factor(1), p |-> 0]

\* An integer literal.
Num(k) ==
    IF k = 0 THEN Zero
    ELSE [s |-> IF k < 0 THEN -1 ELSE 1, f |-> Factor(IF k < 0 THEN -k ELSE k), p |-> 0]

Mul(x, y) ==
    IF IsRaised(x) \/ IsRaised(y) THEN Raised
    ELSE IF x.s = 0 \/ y.s = 0 THEN Zero
    ELSE LET sum == [q \in DOMAIN x.f \cup DOMAIN y.f |->
                         Exponent(x.f, q) + Exponent(y.f, q)]
         IN  [s |-> x.s * y.s, f |-> Factors(sum),
              p |-> x.p + y.p]

\* A division that yields 0 for a zero divisor instead of raising.
Div_guarded(x, y) ==
    IF IsRaised(x) \/ IsRaised(y) THEN Raised
    ELSE IF y.s = 0 \/ x.s = 0 THEN Zero
    ELSE LET diff == [q \in DOMAIN x.f \cup DOMAIN y.f |->
                          Exponent(x.f, q) - Exponent(y.f, q)]
         IN  [s |-> x.s * y.s, f |-> Factors(diff), p |-> x.p - y.p]

\* x / y as IEEE arithmetic evaluates it: an infinity of the sign of x (0
\* for 0 / 0) where Python raises.
Div_ieee(x, y) ==
    IF IsRaised(x) \/ IsRaised(y) THEN Raised
    ELSE IF y.s = 0 THEN [s |-> x.s, f |-> Factor(1), p |-> 0, inf |-> TRUE]
    ELSE IF x.s = 0 THEN Zero
    ELSE LET diff == [q \in DOMAIN x.f \cup DOMAIN y.f |->
                          Exponent(x.f, q) - Exponent(y.f, q)]
         IN  [s |-> x.s * y.s, f |-> Factors(diff), p |-> x.p - y.p]

\* x / y as Python evaluates it: ZeroDivisionError when y is zero.
Div(x, y) ==
    IF IsRaised(x) \/ IsRaised(y) THEN Raised
    ELSE IF y.s = 0 THEN Raised
    ELSE IF x.s = 0 THEN Zero
    ELSE LET diff == [q \in DOMAIN x.f \cup DOMAIN y.f |->
                          Exponent(x.f, q) - Exponent(y.f, q)]
         IN  [s |-> x.s * y.s, f |-> Factors(diff),
              p |-> x.p - y.p]

\* x ** k for a natural k.
Pow(x, k) ==
    IF IsRaised(x) THEN Raised
    ELSE IF k = 0 THEN Num(1)
    ELSE IF x.s = 0 THEN Zero
    ELSE [s |-> IF k % 2 = 0 THEN 1 ELSE x.s, f |-> [q \in DOMAIN x.f |-> k * x.f[q]],
          p |-> k * x.p]

\* A decimal literal m * 10^e.
Dec(m, e) ==
    IF e >= 0 THEN Mul(Num(m), Pow(Num(10), e))
    ELSE Div(Num(m), Pow(Num(10), -e))

\* x and y with their common factor taken out: two integers xi and yi and
\* the factor g with x = xi * g and y = yi * g (x and y nonzero).
Split(x, y) ==
    LET D == DOMAIN x.f \cup DOMAIN y.f
        low == [q \in D |-> IF Exponent(x.f, q) < Exponent(y.f, q)
                            THEN Exponent(x.f, q) ELSE Exponent(y.f, q)]
        xf == Factors([q \in D |-> Exponent(x.f, q) - low[q]])
        yf == Factors([q \in D |-> Exponent(y.f, q) - low[q]])
    IN  [xi |-> x.s * Product(xf, DOMAIN xf), yi |-> y.s * Product(yf, DOMAIN yf),
         g |-> [s |-> 1, f |-> Factors(low), p |-> x.p]]

\* x + y for two numbers with the same power of pi.
Add(x, y) ==
    IF IsRaised(x) \/ IsRaised(y) THEN Raised
    ELSE IF x.s = 0 THEN y
    ELSE IF y.s = 0 THEN x
    ELSE LET t == Split(x, y)
         IN  Mul(Num(t.xi + t.yi), t.g)

Neg(x) == IF IsRaised(x) THEN Raised ELSE [x EXCEPT !.s = -x.s]

Sub(x, y) == Add(x, Neg(y))

Sign(x) == x.s

\* The sign of x - y for two numbers with the same power of pi.
Compare(x, y) ==
    IF x.s # y.s THEN (IF x.s < y.s THEN -1 ELSE 1)
    ELSE IF x.s = 0 THEN 0
    ELSE LET t == Split(x, y)
         IN  IF t.xi < t.yi THEN -1 ELSE IF t.xi = t.yi THEN 0 ELSE 1

Lt(x, y) == Compare(x, y) < 0
Le(x, y) == Compare(x, y) <= 0
Gt(x, y) == Compare(x, y) > 0
Ge(x, y) == Compare(x, y) >= 0

Abs(x) == IF Sign(x) < 0 THEN Neg(x) ELSE x

\* Python's max(x, y) and min(x, y): the first argument unless the second
\* is strictly larger (smaller).
Max(x, y) ==
    IF IsRaised(x) \/ IsRaised(y) THEN Raised
    ELSE IF Gt(y, x) THEN y ELSE x

Min(x, y) ==
    IF IsRaised(x) \/ IsRaised(y) THEN Raised
    ELSE IF Lt(y, x) THEN y ELSE x

\* math.pi in the place of math.pi ** 2.
PiSquared_unsquared == [s |-> 1, f |-> Factor(1), p |-> 1]

\* math.pi ** 2
PiSquared == [s |-> 1, f |-> Factor(1), p |-> 2]

\* math.sqrt(x), kept as sign * sqrt(radicand); ValueError for x < 0.
Sqrt(x) ==
    IF IsRaised(x) THEN Raised
    ELSE IF Sign(x) < 0 THEN [fault |-> "ValueError"]
    ELSE [sign |-> Sign(x), radicand |-> x]

\* x / s for a square root s: sign(x) * sqrt(x^2 / radicand).
DivBySqrt(x, s) ==
    IF IsRaised(x) THEN x
    ELSE IF IsRaised(s) THEN s
    ELSE IF s.sign = 0 THEN Raised
    ELSE [sign |-> Sign(x) * s.sign, radicand |-> Div(Mul(x, x), s.radicand)]

\* s > c for a square-root value s and a number c.
SqrtGt(s, c) ==
    IF s.sign > 0 THEN Sign(c) < 0 \/ Gt(s.radicand, Mul(c, c))
    ELSE Sign(c) < 0 /\ (s.sign = 0 \/ Lt(s.radicand, Mul(c, c)))

----------------------------------------------------------------------------
(* Bounds of the model and the inputs drawn from them                      *)

MaxLength == 2   \* lengths 1 .. MaxLength metres
MaxLoad == 2     \* loads -1000, 0, 1000, .. MaxLoad * 1000 N (or N/m)
MaxDim == 2      \* widths and heights 0, 0.05, .. MaxDim * 0.05 m
MaxCallers == 2  \* concurrent callers 1 .. MaxCallers

Lengths == {Num(k) : k \in 1..MaxLength}
Loads == {Num(1000 * k) : k \in -1..MaxLoad}
Dims == {Dec(5 * k, -2) : k \in 0..MaxDim}

\* Load positions on a span: both supports, the quarter point, the centre,
\* 4 mm past the centre (|a - b| = 0.008), 5 mm past it (|a - b| = 0.01).
LoadPositions(length) ==
    LET half == Div(length, Num(2))
    IN  {Zero, Div(length, Num(4)), half, Add(half, Dec(4, -3)),
         Add(half, Dec(5, -3)), length}

NamedEndConditions == {"pinned-pinned", "fixed-free", "fixed-fixed", "fixed-pinned"}
EndConditions == NamedEndConditions \cup {"pinned-fixed", "free"}

\* An argument left out of a call, and the absence of a value.
Omitted == [omitted |-> TRUE]
None == [none |-> TRUE]

Callers == 1..MaxCallers

\* A caller between two calls.
Idle == [pc |-> "idle", call |-> None, read |-> None, outcome |-> None]

\* The calls the concurrent callers make: the three beam configurations on
\* a 2 m span, a beam without load, a beam of width 0, a column, and a
\* column of height 0.
ConcurrentCalls ==
    {[op |-> "simply_supported_point_load", length |-> Num(2), load |-> Num(1000),
      load_position |-> Num(1), width |-> Dec(5, -2), height |-> Dec(1, -1)],
     [op |-> "cantilever_beam", length |-> Num(2), load |-> Num(1000),
      width |-> Dec(5, -2), height |-> Dec(1, -1)],
     [op |-> "distributed_load_beam", length |-> Num(2), load |-> Num(1000),
      width |-> Dec(5, -2), height |-> Dec(1, -1)],
     [op |-> "cantilever_beam", length |-> Num(2), load |-> Zero,
      width |-> Dec(5, -2), height |-> Dec(1, -1)],
     [op |-> "distributed_load_beam", length |-> Num(2), load |-> Num(1000),
      width |-> Zero, height |-> Dec(1, -1)],
     [op |-> "euler_buckling_load", length |-> Num(3), width |-> Dec(1, -1),
      height |-> Dec(1, -1), end_condition |-> "pinned-pinned"],
     [op |-> "euler_buckling_load", length |-> Num(3), width |-> Dec(1, -1),
      height |-> Zero, end_condition |-> "fixed-free"]}

----------------------------------------------------------------------------
(* Material                                                                *)

MaterialIds == {"steel_a36", "aluminum_6061"}

\* Steel A36 with its yield strength in ksi (36) instead of MPa.
steel_a36_ksi ==
    [name |-> "Steel A36", youngs_modulus |-> Num(200), yield_strength |-> Num(36),
     density |-> Num(7850), cost_per_kg |-> Dec(150, -2)]

steel_a36 ==
    [name |-> "Steel A36", youngs_modulus |-> Num(200), yield_strength |-> Num(250),
     density |-> Num(7850), cost_per_kg |-> Dec(150, -2)]

aluminum_6061 ==
    [name |-> "Aluminum 6061-T6", youngs_modulus |-> Num(69),
     yield_strength |-> Num(276), density |-> Num(2700), cost_per_kg |-> Dec(350, -2)]

StockMaterial(id) == IF id = "steel_a36" THEN steel_a36 ELSE aluminum_6061

----------------------------------------------------------------------------
(* BeamAnalysisResult                                                      *)

\* BeamAnalysisResult built with weight and cost in each other's place.
BeamAnalysisResult_swapped(max_deflection, max_stress, max_moment, max_shear, safety_factor, weight, cost) ==
    IF \E x \in {max_deflection, max_stress, max_moment, max_shear,
                 safety_factor, weight, cost} : IsRaised(x)
    THEN Raised
    ELSE [max_deflection |-> max_deflection, max_stress |-> max_stress,
          max_moment |-> max_moment, max_shear |-> max_shear,
          safety_factor |-> safety_factor, weight |-> cost, cost |-> weight]

\* The dataclass constructor, reached only when no argument's evaluation raised.
BeamAnalysisResult(max_deflection, max_stress, max_moment, max_shear, safety_factor, weight, cost) ==
    IF \E x \in {max_deflection, max_stress, max_moment, max_shear,
                 safety_factor, weight, cost} : IsRaised(x)
    THEN Raised
    ELSE [max_deflection |-> max_deflection, max_stress |-> max_stress,
          max_moment |-> max_moment, max_shear |-> max_shear,
          safety_factor |-> safety_factor, weight |-> weight, cost |-> cost]

IsBeamResult(x) == "safety_factor" \in DOMAIN x

DefaultMinSafetyFactor == Dec(15, -1)

\* is_safe with > where the code has >=.
is_safe_strict(self, arg) ==
    LET min_safety_factor == IF arg = Omitted THEN DefaultMinSafetyFactor ELSE arg
    IN  Gt(self.safety_factor, min_safety_factor)

is_safe(self, arg) ==
    LET min_safety_factor == IF arg = Omitted THEN DefaultMinSafetyFactor ELSE arg
    IN  Ge(self.safety_factor, min_safety_factor)

\* summary(): the status line of the report; the seven formatted value
\* lines carry the fields of self and are not modelled.
summary(self) ==
    LET status == IF is_safe(self, Omitted) THEN "SAFE" ELSE "UNSAFE"
    IN  [status |-> status]

----------------------------------------------------------------------------
(* BeamAnalyzer                                                            *)

\* The centred deflection with length squared where the code cubes it.
CenteredDeflection_squared(load, length, E, I) ==
    Div(Mul(load, Pow(length, 2)), Mul(Mul(Num(48), E), I))

\* The centred formula with the 384 of the distributed load where the code has 48.
CenteredDeflection_384(load, length, E, I) ==
    Div(Mul(load, Pow(length, 3)), Mul(Mul(Num(384), E), I))

\* Deflection of a centred point load, in metres.
CenteredDeflection(load, length, E, I) ==
    Div(Mul(load, Pow(length, 3)), Mul(Mul(Num(48), E), I))

\* The general formula with a where the code has a**2.
GeneralDeflection_unsquared(load, a, b, length, E, I) ==
    Div(Mul(Mul(load, a), Pow(b, 2)), Mul(Mul(Mul(Num(3), E), I), length))

\* General formula for the deflection at the load point, in metres.
GeneralDeflection(load, a, b, length, E, I) ==
    Div(Mul(Mul(load, Pow(a, 2)), Pow(b, 2)), Mul(Mul(Mul(Num(3), E), I), length))

\* The local variables of simply_supported_point_load as its return statement reads them.
simply_supported_point_load_locals(material, length, load, load_position, width, height) ==
    LET I == Div(Mul(width, Pow(height, 3)), Num(12))
        a == load_position
        b == Sub(length, load_position)
        max_moment == Div(Mul(Mul(load, a), b), length)
        E == Mul(material.youngs_modulus, Dec(1, 9))
        max_deflection ==
            IF Lt(Abs(Sub(a, b)), Dec(1, -2))
            THEN CenteredDeflection(load, length, E, I)
            ELSE GeneralDeflection(load, a, b, length, E, I)
        max_deflection_mm == Mul(max_deflection, Num(1000))
        c == Div(height, Num(2))
        max_stress_pa == Div(Mul(max_moment, c), I)
        max_stress_mpa == Div(max_stress_pa, Dec(1, 6))
        max_shear == Max(Div(Mul(load, b), length), Div(Mul(load, a), length))
        safety_factor == Div(material.yield_strength, max_stress_mpa)
        volume == Mul(Mul(length, width), height)
        weight == Mul(volume, material.density)
        cost == Mul(weight, material.cost_per_kg)
    IN  [max_deflection_mm |-> max_deflection_mm, max_stress_mpa |-> max_stress_mpa,
         max_moment |-> max_moment, max_shear |-> max_shear,
         safety_factor |-> safety_factor, weight |-> weight, cost |-> cost]

\* simply_supported_point_load: the record built from the locals, or the exception raised.
simply_supported_point_load(material, length, load, load_position, width, height) ==
    LET v == simply_supported_point_load_locals(material, length, load, load_position, width, height)
    IN  BeamAnalysisResult(v.max_deflection_mm, v.max_stress_mpa, v.max_moment,
                           v.max_shear, v.safety_factor, v.weight, v.cost)

\* The locals of cantilever_beam with the second moment of area about the other axis.
cantilever_beam_locals_weak_axis(material, length, load, width, height) ==
    LET I == Div(Mul(height, Pow(width, 3)), Num(12))
        max_moment == Mul(load, length)
        E == Mul(material.youngs_modulus, Dec(1, 9))
        max_deflection == Div(Mul(load, Pow(length, 3)), Mul(Mul(Num(3), E), I))
        max_deflection_mm == Mul(max_deflection, Num(1000))
        c == Div(height, Num(2))
        max_stress_pa == Div(Mul(max_moment, c), I)
        max_stress_mpa == Div(max_stress_pa, Dec(1, 6))
        max_shear == load
        safety_factor == Div(material.yield_strength, max_stress_mpa)
        volume == Mul(Mul(length, width), height)
        weight == Mul(volume, material.density)
        cost == Mul(weight, material.cost_per_kg)
    IN  [max_deflection_mm |-> max_deflection_mm, max_stress_mpa |-> max_stress_mpa,
         max_moment |-> max_moment, max_shear |-> max_shear,
         safety_factor |-> safety_factor, weight |-> weight, cost |-> cost]

\* The local variables of cantilever_beam as its return statement reads them.
cantilever_beam_locals(material, length, load, width, height) ==
    LET I == Div(Mul(width, Pow(height, 3)), Num(12))
        max_moment == Mul(load, length)
        E == Mul(material.youngs_modulus, Dec(1, 9))
        max_deflection == Div(Mul(load, Pow(length, 3)), Mul(Mul(Num(3), E), I))
        max_deflection_mm == Mul(max_deflection, Num(1000))
        c == Div(height, Num(2))
        max_stress_pa == Div(Mul(max_moment, c), I)
        max_stress_mpa == Div(max_stress_pa, Dec(1, 6))
        max_shear == load
        safety_factor == Div(material.yield_strength, max_stress_mpa)
        volume == Mul(Mul(length, width), height)
        weight == Mul(volume, material.density)
        cost == Mul(weight, material.cost_per_kg)
    IN  [max_deflection_mm |-> max_deflection_mm, max_stress_mpa |-> max_stress_mpa,
         max_moment |-> max_moment, max_shear |-> max_shear,
         safety_factor |-> safety_factor, weight |-> weight, cost |-> cost]

\* cantilever_beam: the record built from the locals, or the exception raised.
cantilever_beam(material, length, load, width, height) ==
    LET v == cantilever_beam_locals(material, length, load, width, height)
    IN  BeamAnalysisResult(v.max_deflection_mm, v.max_stress_mpa, v.max_moment,
                           v.max_shear, v.safety_factor, v.weight, v.cost)

\* The local variables of distributed_load_beam as its return statement reads them.
distributed_load_beam_locals(material, length, load_per_length, width, height) ==
    LET I == Div(Mul(width, Pow(height, 3)), Num(12))
        total_load == Mul(load_per_length, length)
        max_moment == Div(Mul(load_per_length, Pow(length, 2)), Num(8))
        E == Mul(material.youngs_modulus, Dec(1, 9))
        max_deflection ==
            Div(Mul(Mul(Num(5), load_per_length), Pow(length, 4)),
                Mul(Mul(Num(384), E), I))
        max_deflection_mm == Mul(max_deflection, Num(1000))
        c == Div(height, Num(2))
        max_stress_pa == Div(Mul(max_moment, c), I)
        max_stress_mpa == Div(max_stress_pa, Dec(1, 6))
        max_shear == Div(total_load, Num(2))
        safety_factor == Div(material.yield_strength, max_stress_mpa)
        volume == Mul(Mul(length, width), height)
        weight == Mul(volume, material.density)
        cost == Mul(weight, material.cost_per_kg)
    IN  [max_deflection_mm |-> max_deflection_mm, max_stress_mpa |-> max_stress_mpa,
         max_moment |-> max_moment, max_shear |-> max_shear,
         safety_factor |-> safety_factor, weight |-> weight, cost |-> cost]

\* distributed_load_beam: the record built from the locals, or the exception raised.
distributed_load_beam(material, length, load_per_length, width, height) ==
    LET v == distributed_load_beam_locals(material, length, load_per_length, width, height)
    IN  BeamAnalysisResult(v.max_deflection_mm, v.max_stress_mpa, v.max_moment,
                           v.max_shear, v.safety_factor, v.weight, v.cost)

----------------------------------------------------------------------------
(* ColumnAnalyzer                                                          *)

\* The table with 0.8 for fixed-pinned.
K_factors_08(end_condition) ==
    CASE end_condition = "pinned-pinned" -> Dec(10, -1)
      [] end_condition = "fixed-free" -> Dec(20, -1)
      [] end_condition = "fixed-fixed" -> Dec(5, -1)
      [] end_condition = "fixed-pinned" -> Dec(8, -1)
      [] OTHER -> Dec(10, -1)

\* The table with the factors of fixed-free and fixed-fixed exchanged.
K_factors_exchanged(end_condition) ==
    CASE end_condition = "pinned-pinned" -> Dec(10, -1)
      [] end_condition = "fixed-free" -> Dec(5, -1)
      [] end_condition = "fixed-fixed" -> Dec(20, -1)
      [] end_condition = "fixed-pinned" -> Dec(7, -1)
      [] OTHER -> Dec(10, -1)

\* K_factors[end_condition]: KeyError for a tag that is not in the table.
K_factors_subscript(end_condition) ==
    CASE end_condition = "pinned-pinned" -> Dec(10, -1)
      [] end_condition = "fixed-free" -> Dec(20, -1)
      [] end_condition = "fixed-fixed" -> Dec(5, -1)
      [] end_condition = "fixed-pinned" -> Dec(7, -1)
      [] OTHER -> [fault |-> "KeyError"]

\* K_factors.get(end_condition, 1.0)
K_factors(end_condition) ==
    CASE end_condition = "pinned-pinned" -> Dec(10, -1)
      [] end_condition = "fixed-free" -> Dec(20, -1)
      [] end_condition = "fixed-fixed" -> Dec(5, -1)
      [] end_condition = "fixed-pinned" -> Dec(7, -1)
      [] OTHER -> Dec(10, -1)

LongColumnSlenderness == 120

euler_buckling_load(material, length, width, height, end_condition) ==
    LET K == K_factors(end_condition)
        I_min == Min(Div(Mul(width, Pow(height, 3)), Num(12)),
                     Div(Mul(height, Pow(width, 3)), Num(12)))
        L_e == Mul(K, length)
        E == Mul(material.youngs_modulus, Dec(1, 9))
        P_cr == Div(Mul(Mul(PiSquared, E), I_min), Pow(L_e, 2))
        A == Mul(width, height)
        r == Sqrt(Div(I_min, A))
        slenderness == DivBySqrt(L_e, r)
    IN  IF IsRaised(P_cr) THEN P_cr
        ELSE IF IsRaised(slenderness) THEN slenderness
        ELSE [critical_load_n |-> P_cr,
              critical_load_kn |-> Div(P_cr, Num(1000)),
              slenderness_ratio |-> slenderness,
              end_condition |-> end_condition,
              is_long_column |-> SqrtGt(slenderness, Num(LongColumnSlenderness))]

IsColumnResult(x) == "critical_load_n" \in DOMAIN x

----------------------------------------------------------------------------
(* MaterialProperties, MaterialDatabase and MaterialSelector               *)
(* (copilot/materials.py).  Of the fields of MaterialProperties the ones   *)
(* search and recommend read are kept, with name, category and grade.      *)
(* yield_strength (MPa), density (kg/m3) and max_service_temp (C) are      *)
(* whole numbers in the catalog; cost_per_kg has two decimals and is held  *)
(* in hundredths of a USD, and so are the max_cost arguments.              *)

MaterialProperties(name, category, grade, yield_strength, density, max_service_temp, cost_per_kg, corrosion_resistance) ==
    [name |-> name, category |-> category, grade |-> grade,
     yield_strength |-> yield_strength, density |-> density,
     max_service_temp |-> max_service_temp, cost_per_kg |-> cost_per_kg,
     corrosion_resistance |-> corrosion_resistance]

\* The catalog MaterialDatabase.__init__ builds, in its order.
_load_materials ==
    << MaterialProperties("Steel A36", "metal", "ASTM A36",
                          250, 7850, 425, 150, "poor"),
       MaterialProperties("Steel 4140", "metal", "AISI 4140",
                          415, 7850, 425, 220, "moderate"),
       MaterialProperties("Stainless Steel 304", "metal", "AISI 304",
                          215, 8000, 870, 450, "excellent"),
       MaterialProperties("Aluminum 6061-T6", "metal", "AA 6061-T6",
                          276, 2700, 200, 350, "good"),
       MaterialProperties("Aluminum 7075-T6", "metal", "AA 7075-T6",
                          503, 2810, 175, 500, "moderate"),
       MaterialProperties("Titanium Ti-6Al-4V", "metal", "Grade 5",
                          880, 4430, 400, 3500, "excellent"),
       MaterialProperties("ABS Plastic", "polymer", "Standard",
                          40, 1050, 80, 250, "excellent"),
       MaterialProperties("Nylon 6/6", "polymer", "PA66",
                          75, 1140, 120, 300, "excellent") >>

Range(list) == {list[i] : i \in DOMAIN list}

\* [m for m in results if m in keep]
RECURSIVE Filter(_, _)
Filter(results, keep) ==
    IF results = << >> THEN << >>
    ELSE IF Head(results) \in keep THEN <<Head(results)>> \o Filter(Tail(results), keep)
    ELSE Filter(Tail(results), keep)

resistance_levels == <<"poor", "moderate", "good", "excellent">>

\* list.index(x) for an x in the list: its first position, counted from 0.
index(list, x) ==
    (CHOOSE i \in DOMAIN list : list[i] = x /\ \A j \in DOMAIN list : list[j] = x => i <= j) - 1

\* An Optional[...] argument that is given; None is the one that is not.
Some(x) == [some |-> x]

\* resistance_levels.index(corrosion_resistance) raises ValueError.
UnknownLevel(corrosion_resistance) ==
    /\ corrosion_resistance # None
    /\ corrosion_resistance.some \notin Range(resistance_levels)

\* MaterialDatabase.search: the catalog filtered by each criterion that is
\* not None, in the catalog's order.
search(self_materials, min_strength, max_cost, min_temp, category, corrosion_resistance) ==
    LET r0 == self_materials
        r1 == IF min_strength # None
              THEN Filter(r0, {m \in Range(r0) : m.yield_strength >= min_strength.some})
              ELSE r0
        r2 == IF max_cost # None
              THEN Filter(r1, {m \in Range(r1) : m.cost_per_kg <= max_cost.some})
              ELSE r1
        r3 == IF min_temp # None
              THEN Filter(r2, {m \in Range(r2) : m.max_service_temp >= min_temp.some})
              ELSE r2
        r4 == IF category # None
              THEN Filter(r3, {m \in Range(r3) : m.category = category.some})
              ELSE r3
        min_level == index(resistance_levels, corrosion_resistance.some)
    IN  IF corrosion_resistance = None THEN r4
        ELSE IF UnknownLevel(corrosion_resistance) THEN [fault |-> "ValueError"]
        ELSE Filter(r4, {m \in Range(r4) :
                            index(resistance_levels, m.corrosion_resistance) >= min_level})

\* min(candidates, key = field) and max(candidates, key = field): the first
\* of the candidates with the least (greatest) value of the field.
RECURSIVE min(_, _)
min(candidates, key) ==
    IF Len(candidates) = 1 THEN candidates[1]
    ELSE LET best == min(SubSeq(candidates, 1, Len(candidates) - 1), key)
             last == candidates[Len(candidates)]
         IN  IF last[key] < best[key] THEN last ELSE best

RECURSIVE max(_, _)
max(candidates, key) ==
    IF Len(candidates) = 1 THEN candidates[1]
    ELSE LET best == max(SubSeq(candidates, 1, Len(candidates) - 1), key)
             last == candidates[Len(candidates)]
         IN  IF last[key] > best[key] THEN last ELSE best

\* recommend with min where the code has max for "strength".
recommend_weakest(self_db_materials, min_strength, max_cost, min_temp, corrosion_resistance, optimize_for) ==
    LET candidates == search(self_db_materials, min_strength, max_cost, min_temp,
                             None, corrosion_resistance)
    IN  IF UnknownLevel(corrosion_resistance) THEN candidates
        ELSE IF candidates = << >> THEN None
        ELSE IF optimize_for = "cost" THEN min(candidates, "cost_per_kg")
        ELSE IF optimize_for = "weight" THEN min(candidates, "density")
        ELSE IF optimize_for = "strength" THEN min(candidates, "yield_strength")
        ELSE candidates[1]

\* MaterialSelector.recommend
recommend(self_db_materials, min_strength, max_cost, min_temp, corrosion_resistance, optimize_for) ==
    LET candidates == search(self_db_materials, min_strength, max_cost, min_temp,
                             None, corrosion_resistance)
    IN  IF UnknownLevel(corrosion_resistance) THEN candidates
        ELSE IF candidates = << >> THEN None
        ELSE IF optimize_for = "cost" THEN min(candidates, "cost_per_kg")
        ELSE IF optimize_for = "weight" THEN min(candidates, "density")
        ELSE IF optimize_for = "strength" THEN max(candidates, "yield_strength")
        ELSE candidates[1]

----------------------------------------------------------------------------
(* The analyze_beam request handler (app.py)                               *)

\* data.get(key, default): a key the request lacks is held as None, one it
\* has as Some(value).
get(data, key, default) == IF data[key] = None THEN default ELSE data[key].some

\* A request value float() cannot parse.
Unparsable == [text |-> "abc"]

\* float(v) for a number or a string: ValueError for a string that is no number.
float(v) == IF "text" \in DOMAIN v THEN [fault |-> "ValueError"] ELSE v

\* The numerator and the denominator of |x| in lowest terms.
Numerator(x) ==
    LET up == {q \in DOMAIN x.f : x.f[q] > 0}
    IN  Product([q \in up |-> x.f[q]], up)

Denominator(x) ==
    LET down == {q \in DOMAIN x.f : x.f[q] < 0}
    IN  Product([q \in down |-> -x.f[q]], down)

\* round(x, ndigits): the nearest multiple of 10^-ndigits, the even one of
\* two equally near, held as a count of units of 10^-ndigits.
round(x, ndigits) ==
    LET y == Mul(x, Pow(Num(10), ndigits))
        q == Numerator(y) \div Denominator(y)
        twice == 2 * (Numerator(y) % Denominator(y))
        units == IF twice < Denominator(y) THEN q
                 ELSE IF twice > Denominator(y) THEN q + 1
                 ELSE IF q % 2 = 0 THEN q ELSE q + 1
    IN  [units |-> IF y.s = 0 THEN 0 ELSE y.s * units, places |-> ndigits]

\* What a Python call makes of its positional arguments: TypeError when a
\* required parameter of the arity parameters gets none.
Bound(args, arity) == Len(args) = arity

\* jsonify of the result record, and of the exception caught.
Answer(outcome) ==
    IF IsRaised(outcome)
    THEN [status |-> 400, success |-> FALSE, error |-> outcome.fault]
    ELSE [status |-> 200, success |-> TRUE,
          results |-> [max_deflection |-> round(outcome.max_deflection, 3),
                       max_stress |-> round(outcome.max_stress, 2),
                       max_moment |-> round(outcome.max_moment, 2),
                       max_shear |-> round(outcome.max_shear, 2),
                       safety_factor |-> round(outcome.safety_factor, 2),
                       weight |-> round(outcome.weight, 3),
                       cost |-> round(outcome.cost, 2),
                       is_safe |-> is_safe(outcome, Omitted),
                       summary |-> summary(outcome)]]

\* The one element of a singleton set: The({e(x) : x \in {v}}) is e with x
\* bound to the value of v, as an assignment x = v binds it.
The(S) == CHOOSE x \in S : TRUE

\* The try block of analyze_beam up to its return statement: the result
\* record of the analysis, or the exception raised on the way.
analyze_beam_result(data) ==
    The({ IF \E v \in {length, load, width, height} : IsRaised(v)
          THEN [fault |-> "ValueError"]
          ELSE IF beam_type = "cantilever"
          THEN cantilever_beam(material, length, load, width, height)
          ELSE IF beam_type = "distributed"
          THEN The({ IF Bound(args, 4)
                     THEN distributed_load_beam(material, args[1], args[2],
                                                args[3], args[4])
                     ELSE [fault |-> "TypeError"] :
                     args \in {<<load, width, height>>} })
          ELSE The({ IF IsRaised(load_position) THEN load_position
                     ELSE simply_supported_point_load(material, length, load,
                                                      load_position, width, height) :
                     load_position \in
                         {float(get(data, "load_position", Div(length, Num(2))))} }) :
          material \in {IF get(data, "material", "steel_a36") = "aluminum_6061"
                        THEN aluminum_6061 ELSE steel_a36},
          beam_type \in {get(data, "beam_type", "simply_supported")},
          length \in {float(get(data, "length", Num(2)))},
          load \in {float(get(data, "load", Num(1000)))},
          width \in {float(get(data, "width", Dec(5, -2)))},
          height \in {float(get(data, "height", Dec(1, -1)))} })

\* analyze_beam: the response to the request body data.
analyze_beam(data) == Answer(analyze_beam_result(data))

----------------------------------------------------------------------------
(* The caller: one analysis call at a time, then is_safe and summary on    *)
(* the record it got, then on to the next call.                            *)

Init ==
    /\ materials = [id \in MaterialIds |-> StockMaterial(id)]
    /\ beam_analyzer \in [material : MaterialIds]
    /\ column_analyzer \in [material : MaterialIds]
    /\ pc = "idle"
    /\ call = None
    /\ result = None
    /\ safe = None
    /\ report = None
    /\ threads = [t \in Callers |-> Idle]
    /\ db = _load_materials

SimplySupportedPointLoad ==
    /\ pc = "idle"
    /\ \E length \in Lengths, load \in Loads, width \in Dims, height \in Dims :
         \E load_position \in LoadPositions(length) :
            /\ call' = [op |-> "simply_supported_point_load", length |-> length,
                        load |-> load, load_position |-> load_position,
                        width |-> width, height |-> height]
            /\ result' = simply_supported_point_load(materials[beam_analyzer.material],
                             length, load, load_position, width, height)
    /\ pc' = "returned"
    /\ UNCHANGED <<objects, safe, report, threads>>

CantileverBeam ==
    /\ pc = "idle"
    /\ \E length \in Lengths, load \in Loads, width \in Dims, height \in Dims :
         /\ call' = [op |-> "cantilever_beam", length |-> length, load |-> load,
                     width |-> width, height |-> height]
         /\ result' = cantilever_beam(materials[beam_analyzer.material],
                          length, load, width, height)
    /\ pc' = "returned"
    /\ UNCHANGED <<objects, safe, report, threads>>

DistributedLoadBeam ==
    /\ pc = "idle"
    /\ \E length \in Lengths, load_per_length \in Loads, width \in Dims, height \in Dims :
         /\ call' = [op |-> "distributed_load_beam", length |-> length,
                     load |-> load_per_length, width |-> width, height |-> height]
         /\ result' = distributed_load_beam(materials[beam_analyzer.material],
                          length, load_per_length, width, height)
    /\ pc' = "returned"
    /\ UNCHANGED <<objects, safe, report, threads>>

EulerBucklingLoad ==
    /\ pc = "idle"
    /\ \E length \in Lengths, width \in Dims, height \in Dims,
          end_condition \in EndConditions :
         /\ call' = [op |-> "euler_buckling_load", length |-> length, width |-> width,
                     height |-> height, end_condition |-> end_condition]
         /\ result' = euler_buckling_load(materials[column_analyzer.material],
                          length, width, height, end_condition)
    /\ pc' = "returned"
    /\ UNCHANGED <<objects, safe, report, threads>>

\* Thresholds a caller passes to is_safe: none, 1, 2, and the result's own
\* safety factor (the case of equality).
Thresholds(self) == {Omitted, Num(1), Num(2), self.safety_factor}

IsSafe ==
    /\ pc = "returned"
    /\ IsBeamResult(result)
    /\ \E arg \in Thresholds(result) :
         safe' = [min_safety_factor |-> arg, value |-> is_safe(result, arg)]
    /\ UNCHANGED <<objects, pc, call, result, report, threads>>

Summary ==
    /\ pc = "returned"
    /\ IsBeamResult(result)
    /\ report' = summary(result)
    /\ UNCHANGED <<objects, pc, call, result, safe, threads>>

\* The arguments the caller passes to search and recommend: None, and
\* thresholds between and beyond the values of the catalog.
Strengths == {None, Some(250), Some(600), Some(1000)}
Costs == {None, Some(100), Some(250), Some(500)}
Temperatures == {None, Some(200), Some(500), Some(1000)}
Categories == {None, Some("metal"), Some("polymer"), Some("ceramic")}
Levels == {None, Some("poor"), Some("moderate"), Some("good"), Some("excellent"),
           Some("outstanding")}
Objectives == {"cost", "weight", "strength", "balanced"}

\* db.search(...); the list it returns is held as [found |-> list].
Search ==
    /\ pc = "idle"
    /\ \E min_strength \in Strengths, max_cost \in {None, Some(250)},
          min_temp \in {None, Some(200)}, category \in Categories,
          corrosion_resistance \in Levels :
         /\ call' = [op |-> "search", min_strength |-> min_strength,
                     max_cost |-> max_cost, min_temp |-> min_temp,
                     category |-> category,
                     corrosion_resistance |-> corrosion_resistance]
         /\ result' = LET results == search(db, min_strength, max_cost, min_temp,
                                            category, corrosion_resistance)
                       IN  IF UnknownLevel(corrosion_resistance) THEN results
                           ELSE [found |-> results]
    /\ pc' = "returned"
    /\ UNCHANGED <<objects, safe, report, threads>>

\* selector.recommend(...)
Recommend ==
    /\ pc = "idle"
    /\ \E min_strength \in Strengths, max_cost \in Costs, min_temp \in Temperatures,
          corrosion_resistance \in Levels, optimize_for \in Objectives :
         /\ call' = [op |-> "recommend", min_strength |-> min_strength,
                     max_cost |-> max_cost, min_temp |-> min_temp,
                     corrosion_resistance |-> corrosion_resistance,
                     optimize_for |-> optimize_for]
         /\ result' = recommend(db, min_strength, max_cost, min_temp,
                                corrosion_resistance, optimize_for)
    /\ pc' = "returned"
    /\ UNCHANGED <<objects, safe, report, threads>>

\* The request bodies the client posts: each key absent or present, numbers
\* that are positive, zero, or no number at all.
Requests ==
    [material : {None, Some("aluminum_6061"), Some("titanium")},
     beam_type : {None, Some("cantilever"), Some("distributed"),
                  Some("simply_supported"), Some("fixed")},
     length : {None, Some(Num(1)), Some(Unparsable)},
     load : {None, Some(Num(500)), Some(Zero)},
     width : {None, Some(Dec(1, -1)), Some(Zero)},
     height : {None, Some(Dec(5, -2)), Some(Unparsable)},
     load_position : {None, Some(Dec(25, -2)), Some(Zero), Some(Unparsable)}]

\* POST /api/beam/analyze
AnalyzeBeam ==
    /\ pc = "idle"
    /\ \E data \in Requests :
         \E analysis \in {analyze_beam_result(data)} :
            /\ call' = [op |-> "analyze_beam", data |-> data]
            /\ result' = Answer(analysis)
    /\ pc' = "returned"
    /\ UNCHANGED <<objects, safe, report, threads>>

\* The caller drops the result (or handles the exception) and goes on.
Continue ==
    /\ pc = "returned"
    /\ pc' = "idle"
    /\ call' = None
    /\ result' = None
    /\ safe' = None
    /\ report' = None
    /\ UNCHANGED <<objects, threads>>

----------------------------------------------------------------------------
(* Concurrent callers.  A call reads self.material and one of its fields   *)
(* at four places of a beam operation (youngs_modulus, yield_strength,     *)
(* density, cost_per_kg, in this order) and at one place of the column     *)
(* analysis (youngs_modulus); everything else is local to the call.  Each  *)
(* read is one step, so the calls of different callers interleave between  *)
(* their reads.  A call that raises stops at the division that raises.     *)

BeamOperations == {"simply_supported_point_load", "cantilever_beam", "distributed_load_beam"}

\* The value of a field the call has not read yet; no local inspected before
\* the read depends on it.
NotRead == Num(1)

\* The locals of the beam operation c.op on the arguments of c.
Locals(material, c) ==
    CASE c.op = "simply_supported_point_load" ->
            simply_supported_point_load_locals(material, c.length, c.load,
                                               c.load_position, c.width, c.height)
      [] c.op = "cantilever_beam" ->
            cantilever_beam_locals(material, c.length, c.load, c.width, c.height)
      [] c.op = "distributed_load_beam" ->
            distributed_load_beam_locals(material, c.length, c.load, c.width, c.height)

\* self.material of the analyzer that serves call c.
Self(c) == IF c.op \in BeamOperations THEN beam_analyzer ELSE column_analyzer

Invoke(t) ==
    /\ threads[t].pc = "idle"
    /\ \E c \in ConcurrentCalls :
         threads' = [threads EXCEPT ![t] =
                        [pc |-> "youngs_modulus", call |-> c,
                         read |-> [youngs_modulus |-> NotRead, yield_strength |-> NotRead,
                                   density |-> NotRead, cost_per_kg |-> NotRead],
                         outcome |-> None]]
    /\ UNCHANGED <<objects, caller>>

\* A call of a beam operation from the read of th.pc to its next read of
\* self.material, or to its end: the return statement, or the first
\* division that raises.
\*   youngs_modulus : E, then max_moment, max_deflection_mm, max_stress_mpa
\*   yield_strength : safety_factor
\*   density        : weight
\*   cost_per_kg    : cost, and the return statement
BeamStep(th, read) ==
    LET v == Locals(read, th.call)
        raises == [th EXCEPT !.pc = "done", !.read = read, !.outcome = Raised]
    IN  CASE th.pc = "youngs_modulus" ->
                IF \E k \in {"max_deflection_mm", "max_stress_mpa", "max_shear"} :
                      IsRaised(v[k])
                THEN raises
                ELSE [th EXCEPT !.pc = "yield_strength", !.read = read]
          [] th.pc = "yield_strength" ->
                IF IsRaised(v.safety_factor)
                THEN raises
                ELSE [th EXCEPT !.pc = "density", !.read = read]
          [] th.pc = "density" ->
                [th EXCEPT !.pc = "cost_per_kg", !.read = read]
          [] th.pc = "cost_per_kg" ->
                [th EXCEPT !.pc = "done", !.read = read,
                           !.outcome = BeamAnalysisResult(v.max_deflection_mm,
                                           v.max_stress_mpa, v.max_moment, v.max_shear,
                                           v.safety_factor, v.weight, v.cost)]

\* A column analysis reads self.material once, for E, and runs to its end.
ColumnStep(th, read) ==
    [th EXCEPT !.pc = "done", !.read = read,
               !.outcome = euler_buckling_load(read, th.call.length, th.call.width,
                                               th.call.height, th.call.end_condition)]

\* The mutation of self.material a call would make if it scaled the modulus
\* in place (self.material.youngs_modulus *= 1e9) instead of into a local.
ReadMaterial_inplace(t) ==
    LET th == threads[t]
        id == Self(th.call).material
        scaled == IF th.pc = "youngs_modulus"
                  THEN [materials EXCEPT ![id].youngs_modulus = Mul(@, Num(10^9))]
                  ELSE materials
        read == [th.read EXCEPT ![th.pc] = materials[id][th.pc]]
    IN  /\ th.pc \in {"youngs_modulus", "yield_strength", "density", "cost_per_kg"}
        /\ threads' = [threads EXCEPT ![t] =
                          IF th.call.op \in BeamOperations
                          THEN BeamStep(th, read) ELSE ColumnStep(th, read)]
        /\ materials' = scaled
        /\ UNCHANGED <<beam_analyzer, column_analyzer, db, caller>>

\* Caller t's next read of a field of self.material, which is the field
\* th.pc names, and the code that follows it up to the next read.
ReadMaterial(t) ==
    LET th == threads[t]
        read == [th.read EXCEPT ![th.pc] = materials[Self(th.call).material][th.pc]]
    IN  /\ th.pc \in {"youngs_modulus", "yield_strength", "density", "cost_per_kg"}
        /\ threads' = [threads EXCEPT ![t] =
                          IF th.call.op \in BeamOperations
                          THEN BeamStep(th, read) ELSE ColumnStep(th, read)]
        /\ UNCHANGED <<objects, caller>>

\* The caller takes the outcome and is free for its next call.
Return(t) ==
    /\ threads[t].pc = "done"
    /\ threads' = [threads EXCEPT ![t] = Idle]
    /\ UNCHANGED <<objects, caller>>

NextConcurrent ==
    \E t \in Callers :
        \/ Invoke(t)
        \/ ReadMaterial(t)
        \/ Return(t)

SpecConcurrent == Init /\ [][NextConcurrent]_vars

Next ==
    \/ SimplySupportedPointLoad
    \/ CantileverBeam
    \/ DistributedLoadBeam
    \/ EulerBucklingLoad
    \/ IsSafe
    \/ Summary
    \/ Continue

Spec == Init /\ [][Next]_vars

\* The caller of the material selector: one search or recommend at a time.
NextSelector ==
    \/ Search
    \/ Recommend
    \/ Continue

SpecSelector == Init /\ [][NextSelector]_vars

\* The client of the web application: one request at a time.
NextApp ==
    \/ AnalyzeBeam
    \/ Continue

SpecApp == Init /\ [][NextApp]_vars

----------------------------------------------------------------------------
(* Properties                                                              *)

BeamOps == {"simply_supported_point_load", "cantilever_beam", "distributed_load_beam"}

Returned(ops) == pc = "returned" /\ call.op \in ops

Positive(x) == Sign(x) > 0

PositiveGeometry(c) == Positive(c.length) /\ Positive(c.width) /\ Positive(c.height)

\* The material the analyzer of the last call is bound to.
BoundMaterial ==
    IF call.op \in BeamOps THEN materials[beam_analyzer.material]
    ELSE materials[column_analyzer.material]

\* The beam operation c.op on the arguments of c.
BeamCall(material, c) ==
    CASE c.op = "simply_supported_point_load" ->
            simply_supported_point_load(material, c.length, c.load, c.load_position,
                                        c.width, c.height)
      [] c.op = "cantilever_beam" ->
            cantilever_beam(material, c.length, c.load, c.width, c.height)
      [] c.op = "distributed_load_beam" ->
            distributed_load_beam(material, c.length, c.load, c.width, c.height)

\* The reference formulas of the three configurations: moment, shear and
\* deflection (in metres) by configuration, then the shared derivations.
RefMoment(c) ==
    CASE c.op = "simply_supported_point_load" ->
            Div(Mul(c.load, Mul(c.load_position, Sub(c.length, c.load_position))),
                c.length)
      [] c.op = "cantilever_beam" -> Mul(c.load, c.length)
      [] c.op = "distributed_load_beam" ->
            Div(Mul(c.load, Mul(c.length, c.length)), Num(8))

RefShear(c) ==
    CASE c.op = "simply_supported_point_load" ->
            LET left == Div(Mul(c.load, Sub(c.length, c.load_position)), c.length)
                right == Div(Mul(c.load, c.load_position), c.length)
            IN  IF Ge(left, right) THEN left ELSE right
      [] c.op = "cantilever_beam" -> c.load
      [] c.op = "distributed_load_beam" -> Div(Mul(c.load, c.length), Num(2))

RefDeflection(material, c) ==
    LET EI == Mul(Mul(material.youngs_modulus, Dec(1, 9)),
                  Div(Mul(c.width, Pow(c.height, 3)), Num(12)))
        L == c.length
    IN  CASE c.op = "simply_supported_point_load" ->
                LET a == c.load_position
                    b == Sub(L, a)
                IN  IF Lt(Abs(Sub(a, b)), Dec(1, -2))
                    THEN Div(Mul(c.load, Pow(L, 3)), Mul(Num(48), EI))
                    ELSE Div(Mul(c.load, Mul(Pow(a, 2), Pow(b, 2))),
                             Mul(Num(3), Mul(EI, L)))
          [] c.op = "cantilever_beam" ->
                Div(Mul(c.load, Pow(L, 3)), Mul(Num(3), EI))
          [] c.op = "distributed_load_beam" ->
                Div(Mul(Num(5), Mul(c.load, Pow(L, 4))), Mul(Num(384), EI))

RefStress(c) ==
    LET I == Div(Mul(c.width, Pow(c.height, 3)), Num(12))
    IN  Div(Div(Mul(RefMoment(c), Div(c.height, Num(2))), I), Dec(1, 6))

\* The record of the reference formulas, when the stress is not zero.
RefBeam(material, c) ==
    [max_moment |-> RefMoment(c), max_shear |-> RefShear(c),
     max_deflection |-> Mul(RefDeflection(material, c), Num(1000)),
     max_stress |-> RefStress(c),
     safety_factor |-> Div(material.yield_strength, RefStress(c))]

MatchesRefBeam(r, ref) ==
    /\ IsBeamResult(r)
    /\ \A k \in {"max_moment", "max_shear", "max_deflection", "max_stress",
                 "safety_factor"} : r[k] = ref[k]

\* C1 as stated: for every input with length, width, height > 0 each beam
\* operation returns a record that equals the reference formulas.
C1_Original ==
    (Returned(BeamOps) /\ PositiveGeometry(call))
        => MatchesRefBeam(result, RefBeam(BoundMaterial, call))

\* C1, amended: with length, width, height > 0 each beam operation returns
\* a record equal to the reference formulas whenever the maximum moment is
\* not zero; when it is zero (no load, or a point load over a support) the
\* call raises ZeroDivisionError and returns no record.
C1_BeamFormulas ==
    (Returned(BeamOps) /\ PositiveGeometry(call))
        => IF Sign(RefMoment(call)) = 0
           THEN result = Raised
           ELSE MatchesRefBeam(result, RefBeam(BoundMaterial, call))

\* A point load 4 mm off the centre, on the centred branch, has returned a record.
C1_Witness ==
    /\ Returned({"simply_supported_point_load"})
    /\ PositiveGeometry(call)
    /\ IsBeamResult(result)
    /\ call.load_position = Add(Div(call.length, Num(2)), Dec(4, -3))

NamedK ==
    [e \in NamedEndConditions |->
        CASE e = "pinned-pinned" -> Num(1)
          [] e = "fixed-free" -> Num(2)
          [] e = "fixed-fixed" -> Div(Num(1), Num(2))
          [] e = "fixed-pinned" -> Div(Num(7), Num(10))]

\* The reference record of the Euler analysis for effective-length factor K
\* (length, width, height > 0).
RefColumn(material, c, K) ==
    LET strong == Div(Mul(c.width, Pow(c.height, 3)), Num(12))
        weak == Div(Mul(c.height, Pow(c.width, 3)), Num(12))
        I_min == IF Le(strong, weak) THEN strong ELSE weak
        KL == Mul(K, c.length)
        P_cr == Div(Mul(PiSquared, Mul(Mul(material.youngs_modulus, Dec(1, 9)), I_min)),
                    Mul(KL, KL))
        \* the square of K*length / sqrt(I_min / (width*height))
        squared == Div(Mul(Mul(KL, KL), Mul(c.width, c.height)), I_min)
    IN  [critical_load_n |-> P_cr,
         critical_load_kn |-> Div(P_cr, Num(1000)),
         slenderness_ratio |-> [sign |-> 1, radicand |-> squared],
         end_condition |-> c.end_condition,
         is_long_column |-> Gt(squared, Num(120 * 120))]

\* C2: for the four named end conditions euler_buckling_load uses
\* K = 1.0, 2.0, 0.5, 0.7, the smaller second moment of area,
\* P_cr = pi^2*E*I_min/(K*length)^2, critical_load_kn = critical_load_n/1000,
\* echoes the tag, and sets is_long_column exactly when the slenderness
\* ratio K*length/sqrt(I_min/(width*height)) is greater than 120.
C2_EulerFormulas ==
    /\ (Returned({"euler_buckling_load"}) /\ PositiveGeometry(call)
            /\ call.end_condition \in NamedEndConditions)
        => result = RefColumn(BoundMaterial, call, NamedK[call.end_condition])
    /\ (Returned({"euler_buckling_load"}) /\ IsColumnResult(result))
        => result.end_condition = call.end_condition

\* A fixed-free column has been analysed and classified as long.
C2_Witness ==
    /\ Returned({"euler_buckling_load"})
    /\ IsColumnResult(result)
    /\ call.end_condition = "fixed-free"
    /\ result.is_long_column

\* C3: the record a beam operation returns has
\* weight = length*width*height*density and cost = weight*cost_per_kg,
\* exactly, whatever the load and the load position.
C3_WeightCost ==
    (Returned(BeamOps) /\ PositiveGeometry(call))
        => LET m == BoundMaterial
               weight == Mul(call.length, Mul(call.width, Mul(call.height, m.density)))
               others == {[call EXCEPT !.load = l] : l \in Loads}
                         \cup (IF call.op = "simply_supported_point_load"
                               THEN {[call EXCEPT !.load_position = a] :
                                        a \in LoadPositions(call.length)}
                               ELSE {})
           IN  /\ IsBeamResult(result)
                    => /\ result.weight = weight
                       /\ result.cost = Mul(weight, m.cost_per_kg)
               /\ \A c \in others :
                    LET r == BeamCall(m, c)
                    IN  IsBeamResult(r)
                            => r.weight = weight /\ r.cost = Mul(weight, m.cost_per_kg)

\* A distributed-load analysis has returned a record with its weight and cost.
C3_Witness ==
    /\ Returned({"distributed_load_beam"})
    /\ PositiveGeometry(call)
    /\ IsBeamResult(result)
    /\ Positive(result.weight)
    /\ result.cost # result.weight

\* The critical load of the last call's column under end condition e.
CriticalLoad(e) ==
    IF e = call.end_condition THEN result.critical_load_n
    ELSE euler_buckling_load(BoundMaterial, call.length, call.width, call.height,
                             e).critical_load_n

\* C4: for fixed material and geometry (length, width, height > 0) the
\* critical loads are strictly ordered
\* fixed-fixed > fixed-pinned > pinned-pinned > fixed-free.
C4_EulerOrdering ==
    (Returned({"euler_buckling_load"}) /\ PositiveGeometry(call))
        => /\ IsColumnResult(result)
           /\ Gt(CriticalLoad("fixed-fixed"), CriticalLoad("fixed-pinned"))
           /\ Gt(CriticalLoad("fixed-pinned"), CriticalLoad("pinned-pinned"))
           /\ Gt(CriticalLoad("pinned-pinned"), CriticalLoad("fixed-free"))

\* A fixed-fixed column of positive dimensions has been analysed.
C4_Witness ==
    /\ Returned({"euler_buckling_load"})
    /\ PositiveGeometry(call)
    /\ call.end_condition = "fixed-fixed"
    /\ IsColumnResult(result)

\* The last beam call made again with every larger height of the model:
\* both calls return, and deflection and stress are strictly smaller.
DecreasesWithHeight ==
    \A h2 \in Dims :
        Gt(h2, call.height)
            => LET r2 == BeamCall(BoundMaterial, [call EXCEPT !.height = h2])
               IN  /\ IsBeamResult(result)
                   /\ IsBeamResult(r2)
                   /\ Lt(r2.max_deflection, result.max_deflection)
                   /\ Lt(r2.max_stress, result.max_stress)

\* C5 as stated: for each beam operation, with length, load and width fixed
\* (length > 0, width > 0), any two heights 0 < h1 < h2 give a strictly
\* smaller max_deflection and max_stress at h2 (read for the calls that
\* return a record).
C5_Original ==
    (Returned(BeamOps) /\ PositiveGeometry(call))
        => \A h2 \in Dims :
              Gt(h2, call.height)
                  => LET r2 == BeamCall(BoundMaterial, [call EXCEPT !.height = h2])
                     IN  (IsBeamResult(result) /\ IsBeamResult(r2))
                            => /\ Lt(r2.max_deflection, result.max_deflection)
                               /\ Lt(r2.max_stress, result.max_stress)

\* A load that bends the beam downwards: load > 0 and, for the point load
\* on two supports, a position strictly between the supports.
PositiveLoading(c) ==
    /\ Positive(c.load)
    /\ c.op = "simply_supported_point_load"
        => Positive(c.load_position) /\ Lt(c.load_position, c.length)

\* C5, amended: the same, for a load > 0 that is (for the point load on two
\* supports) strictly between the supports.
C5_Monotonicity ==
    (Returned(BeamOps) /\ PositiveGeometry(call) /\ PositiveLoading(call))
        => DecreasesWithHeight

\* A positively loaded cantilever has been analysed at a height that is not
\* the largest of the model.
C5_Witness ==
    /\ Returned({"cantilever_beam"})
    /\ PositiveGeometry(call)
    /\ PositiveLoading(call)
    /\ IsBeamResult(result)
    /\ \E h2 \in Dims : Gt(h2, call.height)

\* C6: at load_position = length/2 the general formula and the centred
\* formula give the same deflection, and the returned max_deflection is the
\* centred-formula value (in mm).
C6_CenterAgreement ==
    (Returned({"simply_supported_point_load"})
        /\ call.load_position = Div(call.length, Num(2)))
        => LET E == Mul(BoundMaterial.youngs_modulus, Dec(1, 9))
               I == Div(Mul(call.width, Pow(call.height, 3)), Num(12))
               a == call.load_position
               b == Sub(call.length, a)
               centered == CenteredDeflection(call.load, call.length, E, I)
               general == GeneralDeflection(call.load, a, b, call.length, E, I)
           IN  /\ general = centered
               /\ IsBeamResult(result)
                    => result.max_deflection = Mul(centered, Num(1000))

\* A point load at the centre of the span has returned a record.
C6_Witness ==
    /\ Returned({"simply_supported_point_load"})
    /\ call.load_position = Div(call.length, Num(2))
    /\ IsBeamResult(result)
    /\ Positive(result.max_deflection)

\* C7: for a tag that is not one of the four named conditions the call
\* raises no error of its own and returns the critical_load_n,
\* critical_load_kn, slenderness_ratio and is_long_column of the
\* 'pinned-pinned' call on the same material and geometry.
C7_UnknownTag ==
    (Returned({"euler_buckling_load"}) /\ call.end_condition \notin NamedEndConditions)
        => LET pinned == euler_buckling_load(BoundMaterial, call.length, call.width,
                                             call.height, "pinned-pinned")
           IN  /\ PositiveGeometry(call) => IsColumnResult(result)
               /\ IF IsColumnResult(pinned)
                  THEN /\ IsColumnResult(result)
                       /\ \A k \in {"critical_load_n", "critical_load_kn",
                                    "slenderness_ratio", "is_long_column"} :
                             result[k] = pinned[k]
                  ELSE result = pinned

\* A column with an unknown tag has been analysed and a record returned.
C7_Witness ==
    /\ Returned({"euler_buckling_load"})
    /\ call.end_condition = "free"
    /\ IsColumnResult(result)

BeamResultFields ==
    {"max_deflection", "max_stress", "max_moment", "max_shear", "safety_factor",
     "weight", "cost"}

\* C8: is_safe(threshold) is true iff safety_factor >= threshold, with
\* threshold 1.5 when omitted; an analysis whose safety factor is below 1.5
\* still returns the complete record; summary() reports SAFE exactly when
\* is_safe() with the default threshold is true.
C8_IsSafe ==
    /\ safe # None
        => LET threshold == IF safe.min_safety_factor = Omitted THEN Dec(15, -1)
                            ELSE safe.min_safety_factor
           IN  safe.value <=> ~Lt(result.safety_factor, threshold)
    /\ report # None
        => (report.status = "SAFE" <=> ~Lt(result.safety_factor, Dec(15, -1)))
    /\ (Returned(BeamOps) /\ PositiveGeometry(call) /\ Sign(RefMoment(call)) # 0
            /\ Lt(Div(BoundMaterial.yield_strength, RefStress(call)), Dec(15, -1)))
        => /\ DOMAIN result = BeamResultFields
           /\ result.safety_factor = Div(BoundMaterial.yield_strength, RefStress(call))

\* An unsafe design with a positive safety factor has been reported UNSAFE,
\* and is_safe asked with the safety factor itself as threshold.
C8_Witness ==
    /\ Returned(BeamOps)
    /\ IsBeamResult(result)
    /\ Positive(result.safety_factor)
    /\ Lt(result.safety_factor, Dec(15, -1))
    /\ report # None
    /\ report.status = "UNSAFE"
    /\ safe # None
    /\ safe.min_safety_factor = result.safety_factor
    /\ safe.value

\* C9: with width = 0 or height = 0 (length > 0) every beam operation and
\* euler_buckling_load raises ZeroDivisionError and returns no record.
C9_DegenerateGeometry ==
    (Returned(BeamOps \cup {"euler_buckling_load"}) /\ Positive(call.length)
        /\ (Sign(call.width) = 0 \/ Sign(call.height) = 0))
        => result = Raised

\* A column of width 0 and positive height has been analysed.
C9_Witness ==
    /\ Returned({"euler_buckling_load"})
    /\ Sign(call.width) = 0
    /\ Positive(call.height)
    /\ result = Raised

----------------------------------------------------------------------------
\* The call c made alone on an analyzer bound to the stock material id.
Alone(id, c) ==
    IF c.op \in BeamOperations THEN BeamCall(StockMaterial(id), c)
    ELSE euler_buckling_load(StockMaterial(id), c.length, c.width, c.height,
                             c.end_condition)

\* Every finished call of a concurrent caller holds what the call returns
\* (or raises) when made alone.
OutcomesAsAlone ==
    \A t \in Callers :
        threads[t].pc = "done"
            => threads[t].outcome = Alone(Self(threads[t].call).material, threads[t].call)

\* C10: after any sequence or interleaving of BeamAnalyzer and
\* ColumnAnalyzer calls, faulting ones included, the five fields of every
\* Material and the bound material of every analyzer are unchanged, and each
\* call returns exactly what it returns when made alone.
C10_Purity ==
    /\ [](materials = [id \in MaterialIds |-> StockMaterial(id)] /\ OutcomesAsAlone)
    /\ [][objects' = objects]_vars

\* Both analyzers are bound to the same Material; one caller's beam call
\* has faulted and is not yet taken, while another caller's beam call has
\* read the modulus and the yield strength and is still running.
C10_Witness ==
    /\ beam_analyzer.material = column_analyzer.material
    /\ \E t, u \in Callers :
          /\ threads[t].pc = "done"
          /\ threads[t].outcome = Raised
          /\ threads[u].pc = "density"
          /\ threads[u].call.op = "cantilever_beam"

----------------------------------------------------------------------------
\* x is about m * 10^e: less than one unit of the last digit given away.
Approx(x, m, e) ==
    /\ ~IsRaised(x)
    /\ Gt(x, Dec(m - 1, e))
    /\ Lt(x, Dec(m + 1, e))

\* The beam scenario: Steel A36, 2 m span, 1000 N at 1 m, section 0.05 m by
\* 0.1 m, on two supports.
BeamScenario ==
    /\ Returned({"simply_supported_point_load"})
    /\ materials[beam_analyzer.material] = steel_a36
    /\ call.length = Num(2)
    /\ call.load = Num(1000)
    /\ call.load_position = Num(1)
    /\ call.width = Dec(5, -2)
    /\ call.height = Dec(1, -1)

\* What the scenario returns, but for max_deflection.
BeamScenarioFields ==
    /\ IsBeamResult(result)
    /\ result.max_moment = Num(500)
    /\ Approx(result.max_stress, 60, -1)
    /\ Approx(result.safety_factor, 417, -1)
    /\ Approx(result.weight, 785, -1)
    /\ Approx(result.cost, 11775, -2)
    /\ (safe # None /\ safe.min_safety_factor = Omitted) => safe.value

\* C11 as stated: the scenario returns max_moment = 500 N*m, max_deflection
\* about 1.2 mm, max_stress about 6.0 MPa, safety_factor about 41.7, weight
\* about 78.5 kg, cost about 117.75, and is_safe() is true.
C11_Original ==
    BeamScenario => (BeamScenarioFields /\ Approx(result.max_deflection, 12, -1))

\* C11, amended: the same with max_deflection about 0.2 mm
\* (1000 * 2^3 / (48 * 200e9 * 4.1667e-6) m).
C11_Scenario ==
    BeamScenario => (BeamScenarioFields /\ Approx(result.max_deflection, 2, -1))

\* The scenario has been analysed and is_safe() asked with its default.
C11_Witness ==
    /\ BeamScenario
    /\ IsBeamResult(result)
    /\ safe # None
    /\ safe.min_safety_factor = Omitted

----------------------------------------------------------------------------
\* 9.8696 < pi^2 < 9.87, so a number x = q * pi^2 with q > 0 lies between
\* q * 9.8696 and q * 9.87.
PiSquaredLower(x) == Mul([x EXCEPT !.p = 0], Dec(98696, -4))
PiSquaredUpper(x) == Mul([x EXCEPT !.p = 0], Dec(987, -2))

\* q * pi^2 is certainly, and is possibly, about m * 10^e.
SurelyApprox(x, m, e) ==
    /\ ~IsRaised(x)
    /\ x.p = 2
    /\ Gt(PiSquaredLower(x), Dec(m - 1, e))
    /\ Lt(PiSquaredUpper(x), Dec(m + 1, e))

PossiblyApprox(x, m, e) ==
    /\ ~IsRaised(x)
    /\ x.p = 2
    /\ Gt(PiSquaredUpper(x), Dec(m - 1, e))
    /\ Lt(PiSquaredLower(x), Dec(m + 1, e))

\* A positive square root is about m * 10^e.
ApproxSqrt(s, m, e) ==
    /\ s.sign > 0
    /\ Gt(s.radicand, Pow(Dec(m - 1, e), 2))
    /\ Lt(s.radicand, Pow(Dec(m + 1, e), 2))

\* The column scenario: Steel A36, 3 m long, 0.1 m by 0.1 m, pinned-pinned;
\* caller t holds its outcome.
ColumnScenario(t) ==
    /\ threads[t].pc = "done"
    /\ threads[t].call.op = "euler_buckling_load"
    /\ materials[column_analyzer.material] = steel_a36
    /\ threads[t].call.length = Num(3)
    /\ threads[t].call.width = Dec(1, -1)
    /\ threads[t].call.height = Dec(1, -1)
    /\ threads[t].call.end_condition = "pinned-pinned"

\* C12 as stated: the column scenario returns a critical load of about
\* 548.3 kN, a slenderness ratio of about 103.9 and is_long_column false.
C12_Original ==
    \A t \in Callers :
        ColumnScenario(t)
            => /\ IsColumnResult(threads[t].outcome)
               /\ PossiblyApprox(threads[t].outcome.critical_load_kn, 5483, -1)
               /\ ApproxSqrt(threads[t].outcome.slenderness_ratio, 1039, -1)
               /\ ~threads[t].outcome.is_long_column

\* C12, amended: the same with a critical load of about 1827.7 kN
\* (pi^2 * 200e9 * 8.333e-6 / 3^2 N).
C12_Scenario ==
    \A t \in Callers :
        ColumnScenario(t)
            => /\ IsColumnResult(threads[t].outcome)
               /\ SurelyApprox(threads[t].outcome.critical_load_kn, 18277, -1)
               /\ threads[t].outcome.critical_load_n
                     = Mul(threads[t].outcome.critical_load_kn, Num(1000))
               /\ ApproxSqrt(threads[t].outcome.slenderness_ratio, 1039, -1)
               /\ ~threads[t].outcome.is_long_column

\* A caller holds the outcome of the column scenario.
C12_Witness ==
    \E t \in Callers : ColumnScenario(t) /\ IsColumnResult(threads[t].outcome)

----------------------------------------------------------------------------
\* The variant of simply_supported_point_load the spec proposes: the general
\* formula P*a^2*b^2/(3*E*I*L) at every load position, the rest as implemented.
AlwaysGeneral(material, length, load, load_position, width, height) ==
    LET I == Div(Mul(width, Pow(height, 3)), Num(12))
        a == load_position
        b == Sub(length, load_position)
        max_moment == Div(Mul(Mul(load, a), b), length)
        E == Mul(material.youngs_modulus, Dec(1, 9))
        max_deflection ==
            Div(Mul(Mul(load, Pow(a, 2)), Pow(b, 2)), Mul(Mul(Mul(Num(3), E), I), length))
        max_stress_mpa == Div(Div(Mul(max_moment, Div(height, Num(2))), I), Dec(1, 6))
        weight == Mul(Mul(Mul(length, width), height), material.density)
    IN  BeamAnalysisResult(Mul(max_deflection, Num(1000)), max_stress_mpa, max_moment,
                           Max(Div(Mul(load, b), length), Div(Mul(load, a), length)),
                           Div(material.yield_strength, max_stress_mpa),
                           weight, Mul(weight, material.cost_per_kg))

\* The variant on the arguments of the call just made.
Variant ==
    AlwaysGeneral(BoundMaterial, call.length, call.load, call.load_position,
                  call.width, call.height)

\* |a - b| of the call just made.
Offset == Abs(Sub(call.load_position, Sub(call.length, call.load_position)))

\* The variant and the implementation agree on whether a record is
\* returned and on every field of it but max_deflection.
OtherFieldsIdentical ==
    IF IsBeamResult(result)
    THEN /\ IsBeamResult(Variant)
         /\ \A k \in DOMAIN result \ {"max_deflection"} : Variant[k] = result[k]
    ELSE Variant = result

\* C13 as stated: the variant returns the max_deflection of the
\* implementation at every load position but those with |a - b| = 0.01
\* exactly, and all other fields at every load position.
C13_Original ==
    Returned({"simply_supported_point_load"})
        => /\ OtherFieldsIdentical
           /\ Offset # Dec(1, -2) => Variant = result

\* C13, amended: the variant returns the max_deflection of the
\* implementation at every load position with a = b or |a - b| > 0.01, and
\* all other fields at every load position; with 0 < |a - b| < 0.01 and a
\* record returned the two deflections differ.
C13_GeneralFormula ==
    Returned({"simply_supported_point_load"})
        => /\ OtherFieldsIdentical
           /\ (Sign(Offset) = 0 \/ Gt(Offset, Dec(1, -2))) => Variant = result
           /\ (IsBeamResult(result) /\ Sign(Offset) > 0 /\ Lt(Offset, Dec(1, -2)))
                 => Variant.max_deflection # result.max_deflection

\* A centred load has been analysed and a record returned.
C13_Witness ==
    /\ Returned({"simply_supported_point_load"})
    /\ IsBeamResult(result)
    /\ Sign(Offset) = 0

----------------------------------------------------------------------------
\* The order poor < moderate < good < excellent.
LevelRank(level) ==
    CASE level = "poor" -> 0
      [] level = "moderate" -> 1
      [] level = "good" -> 2
      [] level = "excellent" -> 3

\* Material m satisfies every criterion that call c supplies.
Satisfies(m, c) ==
    /\ c.min_strength # None => m.yield_strength >= c.min_strength.some
    /\ c.max_cost # None => m.cost_per_kg <= c.max_cost.some
    /\ c.min_temp # None => m.max_service_temp >= c.min_temp.some
    /\ c.corrosion_resistance # None
         => LevelRank(m.corrosion_resistance) >= LevelRank(c.corrosion_resistance.some)

\* The positions of the catalog whose material satisfies the call just made.
Matches == {i \in DOMAIN db : Satisfies(db[i], call)}

\* The material returned is the best of the matches for the objective.
Optimal(m) ==
    /\ \E i \in Matches : db[i] = m
    /\ call.optimize_for = "cost" => \A i \in Matches : m.cost_per_kg <= db[i].cost_per_kg
    /\ call.optimize_for = "weight" => \A i \in Matches : m.density <= db[i].density
    /\ call.optimize_for = "strength"
         => \A i \in Matches : m.yield_strength >= db[i].yield_strength
    /\ call.optimize_for \notin {"cost", "weight", "strength"}
         => \A i \in Matches : m = db[i] \/ \E j \in Matches : j < i /\ db[j] = m

\* C14: recommend returns None exactly when no catalog material satisfies
\* every supplied criterion; otherwise a satisfying catalog material of
\* minimum cost_per_kg ("cost"), minimum density ("weight"), maximum
\* yield_strength ("strength"), or the first match in catalog order (any
\* other objective); the catalog is the same whatever search and recommend
\* calls were made.
C14_Recommend ==
    /\ db = _load_materials
    /\ (Returned({"recommend"}) /\ ~UnknownLevel(call.corrosion_resistance))
         => /\ result = None <=> Matches = {}
            /\ result # None => Optimal(result)

\* recommend for the strongest material has returned one of several
\* matches, after criteria that rule some materials out.
C14_Witness ==
    /\ Returned({"recommend"})
    /\ call.optimize_for = "strength"
    /\ call.corrosion_resistance = Some("good")
    /\ call.max_cost # None
    /\ result # None
    /\ Cardinality(Matches) = 2

----------------------------------------------------------------------------
\* The call just made stresses the beam: its load is not zero and, on two
\* supports, the point load is strictly between them.
Stressed ==
    /\ Sign(call.load) # 0
    /\ call.op = "simply_supported_point_load"
         => Positive(call.load_position) /\ Lt(call.load_position, call.length)

\* C15 as stated: with length, width and height > 0 each beam operation
\* returns a record for every load (0 included) and every load_position in
\* [0, length]; a division by zero arises only when width, height or length
\* is zero.
C15_Original ==
    Returned(BeamOps)
        => /\ PositiveGeometry(call) => IsBeamResult(result)
           /\ result = Raised => ~PositiveGeometry(call)

\* C15, amended: with length, width and height > 0 each beam operation
\* returns a record exactly when the load is not zero and (for
\* simply_supported_point_load) 0 < load_position < length; with load = 0 or
\* a point load over a support max_stress is 0 and the safety factor's
\* division raises ZeroDivisionError, as it does for width or height zero.
C15_Faults ==
    Returned(BeamOps)
        => /\ PositiveGeometry(call) => (IsBeamResult(result) <=> Stressed)
           /\ ~IsBeamResult(result) => result = Raised
           /\ result = Raised => (~PositiveGeometry(call) \/ ~Stressed)

\* A beam of positive length, width and height with no load on it has been
\* analysed, and the call raised.
C15_Witness ==
    /\ Returned({"distributed_load_beam", "cantilever_beam"})
    /\ PositiveGeometry(call)
    /\ Sign(call.load) = 0
    /\ result = Raised

----------------------------------------------------------------------------
\* The request's value for key, or the handler's default for it.
Value(data, key, default) == float(get(data, key, default))

\* Some value of the request cannot be parsed as a number.
CannotParse(data) ==
    \/ \E key \in {"length", "load", "width", "height"} : data[key] = Some(Unparsable)
    \/ /\ get(data, "beam_type", "simply_supported") \notin {"cantilever", "distributed"}
       /\ data.load_position = Some(Unparsable)

\* length, load, width and height of the request are numbers > 0, and a
\* load_position it gives is one strictly between the supports.
PositiveRequest(data) ==
    /\ ~CannotParse(data)
    /\ Positive(Value(data, "length", Num(2)))
    /\ Positive(Value(data, "load", Num(1000)))
    /\ Positive(Value(data, "width", Dec(5, -2)))
    /\ Positive(Value(data, "height", Dec(1, -1)))
    /\ data.load_position # None
         => /\ data.load_position # Some(Unparsable)
            /\ Positive(data.load_position.some)
            /\ Lt(data.load_position.some, Value(data, "length", Num(2)))

\* The BeamAnalyzer operation that matches the request's beam_type, on the
\* request's length, load, width and height.
Matching(data) ==
    LET material == IF get(data, "material", "steel_a36") = "aluminum_6061"
                    THEN aluminum_6061 ELSE steel_a36
        beam_type == get(data, "beam_type", "simply_supported")
        length == Value(data, "length", Num(2))
        load == Value(data, "load", Num(1000))
        width == Value(data, "width", Dec(5, -2))
        height == Value(data, "height", Dec(1, -1))
    IN  IF beam_type = "cantilever"
        THEN cantilever_beam(material, length, load, width, height)
        ELSE IF beam_type = "distributed"
        THEN distributed_load_beam(material, length, load, width, height)
        ELSE simply_supported_point_load(material, length, load,
                 Value(data, "load_position", Div(length, Num(2))), width, height)

\* C16: for every beam_type ('cantilever', 'distributed', anything else as
\* simply supported) and numbers length, load, width, height > 0,
\* analyze_beam invokes the matching operation on them and answers
\* success = true with the seven result fields, is_safe and summary;
\* success = false with status 400 only when a request value cannot be
\* parsed or the analysis itself faults.
C16_AnalyzeBeam ==
    Returned({"analyze_beam"})
        => /\ PositiveRequest(call.data)
                => /\ result.success
                   /\ result.status = 200
                   /\ result = Answer(Matching(call.data))
           /\ ~result.success
                => /\ result.status = 400
                   /\ CannotParse(call.data) \/ IsRaised(Matching(call.data))

====
